---- MODULE Spec2Model ----
(***************************************************************************)
(* School management (system.py) and hospital management (HealthCare.py):  *)
(* the association bookkeeping between students and courses, the School    *)
(* registry, and a patient's room and doctor links.                         *)
(*                                                                         *)
(* Python lists are sequences, dicts are functions whose DOMAIN is the set *)
(* of keys present, objects are small integers compared by identity, and   *)
(* None is the integer 0.  Methods are operators from a heap to the heap   *)
(* after the call and the value returned; one action per method applies    *)
(* the operator and records the call in `last`.                            *)
(***************************************************************************)
EXTENDS Integers, Sequences, FiniteSets

\* ------------------------------------------------------------- bounds
NumStudents == 3      \* Student objects
NumEntities == 3      \* objects offered to each School registry
NumPatients == 2      \* Patient objects
MaxClock == 2         \* readings of datetime.now()
MaxHistory == 2       \* entries in one patient's medical history

Students == 1..NumStudents
Courses == {1, 2}
\* Student.add_grade is exercised on these students (grades are per student)
GradedStudents == {1, 2}
\* max_students is whatever int the caller passes to Course.__init__
CapValues == {-1, 0, 1, 2}

\* the Person objects whose fields are set, and the Teacher objects
Persons == {1}
Teachers == {1, 2}

Entities == 1..NumEntities
\* the identifiers those objects carry
Ids == {1, 2}
Patients == 1..NumPatients
Rooms == {1, 2}
Doctors == {1, 2}
\* the students whose grades are rewritten, the patients whose history is
\* written, and the history strings passed
RecordStudents == {1}
HistoryPatients == {1}
Histories == {1}

None == 0

VARIABLES
    max_students,        \* Course._max_students, per course
    enrolled_courses,    \* Student._enrolled_courses, per student: a list of courses
    enrolled_students,   \* Course._enrolled_students, per course: a list of students
    grades,              \* Student._grades, per student: a dict course_id -> grade
    school_students,     \* School._students: a dict person_id -> Student
    school_teachers,     \* School._teachers: a dict person_id -> Teacher
    school_courses,      \* School._courses: a dict course_id -> Course
    school_departments,  \* School._departments: a dict dept_id -> Department
    room,                \* Patient._room, per patient
    admission_date,      \* Patient._admission_date, per patient
    is_admitted,         \* Patient._is_admitted, per patient
    assigned_doctor,     \* Patient._assigned_doctor, per patient
    doctor_patients,     \* Doctor._patients, per doctor: a list of patients
    room_occupant,       \* the patient a Room holds, per room
    clock,               \* what datetime.now() reads
    calls,               \* the Room methods the last call invoked, in order
    medical_history,     \* Patient._medical_history, per patient: a list of entries
    name,                \* Person._name, per person: a string
    email,               \* Person._email, per person: a string
    grade_level,         \* Student._grade_level, per student
    salary,              \* Teacher._salary, per teacher
    courses_taught,      \* Teacher._courses_taught, per teacher: a list of courses
    teacher,             \* Course._teacher, per course
    last                 \* the call just made and what it returned

enrollVars == <<enrolled_courses, enrolled_students, grades>>
schoolVars == <<school_students, school_teachers, school_courses, school_departments>>
patientVars == <<room, admission_date, is_admitted>>
doctorVars == <<assigned_doctor, doctor_patients>>
hospitalVars ==
    <<patientVars, doctorVars, room_occupant, clock, calls, medical_history>>
personVars == <<name, email, grade_level, salary>>
teacherVars == <<courses_taught, teacher>>
staffVars == <<personVars, teacherVars>>

vars == <<max_students, enrollVars, schoolVars, hospitalVars, staffVars, last>>

\* ------------------------------------------------------- Python lists
\* x in lst
Contains(lst, x) == \E i \in 1..Len(lst) : lst[i] = x

\* lst.remove(x): removes the first occurrence of x (x must be present)
ListRemove(lst, x) ==
    LET i == CHOOSE k \in 1..Len(lst) :
                 lst[k] = x /\ \A j \in 1..(k - 1) : lst[j] # x
    IN  [j \in 1..(Len(lst) - 1) |-> IF j < i THEN lst[j] ELSE lst[j + 1]]

Count(lst, x) == Cardinality({i \in 1..Len(lst) : lst[i] = x})

\* del d[k]
DictDel(d, k) == [x \in (DOMAIN d) \ {k} |-> d[x]]

\* d[k] = v
DictSet(d, k, v) == [x \in (DOMAIN d) \cup {k} |-> IF x = k THEN v ELSE d[x]]

\* ------------------------------------------------------------ the heap
\* Course.course_id: the courses of the model carry distinct ids
course_id(c) == c

Heap == [ec |-> enrolled_courses, es |-> enrolled_students, gr |-> grades]

Call(op, self, arg, val, ret) ==
    [op |-> op, self |-> self, arg |-> arg, val |-> val, ret |-> ret]

\* --------------------------------------------------------------- Course
\* add_student with the capacity test written > instead of >=
add_student_off_by_one(h, c, s) ==
    IF Len(h.es[c]) > max_students[c]
    THEN [h |-> h, ret |-> "False"]
    ELSE IF ~Contains(h.es[c], s)
         THEN [h |-> [h EXCEPT !.es[c] = Append(@, s)], ret |-> "True"]
         ELSE [h |-> h, ret |-> "False"]

\* Course.add_student(student) -> bool
add_student(h, c, s) ==
    IF Len(h.es[c]) >= max_students[c]
    THEN [h |-> h, ret |-> "False"]
    ELSE IF ~Contains(h.es[c], s)
         THEN [h |-> [h EXCEPT !.es[c] = Append(@, s)], ret |-> "True"]
         ELSE [h |-> h, ret |-> "False"]

\* Course.remove_student(student)
remove_student(h, c, s) ==
    IF Contains(h.es[c], s)
    THEN [h EXCEPT !.es[c] = ListRemove(@, s)]
    ELSE h

\* -------------------------------------------------------------- Student
\* enroll_course that does not look at what course.add_student returned
enroll_course_ignores_result(h, s, c) ==
    IF Contains(h.ec[s], c)
    THEN [h |-> h, ret |-> "False"]
    ELSE LET r == add_student(h, c, s)
         IN  [h |-> [r.h EXCEPT !.ec[s] = Append(@, c)], ret |-> "True"]

\* Student.enroll_course(course) -> bool
enroll_course(h, s, c) ==
    IF Contains(h.ec[s], c)
    THEN [h |-> h, ret |-> "False"]
    ELSE LET r == add_student(h, c, s)
         IN  IF r.ret = "True"
             THEN [h |-> [r.h EXCEPT !.ec[s] = Append(@, c)], ret |-> "True"]
             ELSE [h |-> r.h, ret |-> "False"]

\* drop_course without the call of course.remove_student
drop_course_keeps_student(h, s, c) ==
    IF ~Contains(h.ec[s], c)
    THEN [h |-> h, ret |-> "False"]
    ELSE LET h2 == [h EXCEPT !.ec[s] = ListRemove(@, c)]
             h3 == IF course_id(c) \in DOMAIN h2.gr[s]
                   THEN [h2 EXCEPT !.gr[s] = DictDel(@, course_id(c))]
                   ELSE h2
         IN  [h |-> h3, ret |-> "True"]

\* drop_course without self._enrolled_courses.remove(course)
drop_course_keeps_course(h, s, c) ==
    IF ~Contains(h.ec[s], c)
    THEN [h |-> h, ret |-> "False"]
    ELSE LET h1 == remove_student(h, c, s)
             h3 == IF course_id(c) \in DOMAIN h1.gr[s]
                   THEN [h1 EXCEPT !.gr[s] = DictDel(@, course_id(c))]
                   ELSE h1
         IN  [h |-> h3, ret |-> "True"]

\* drop_course that deletes the grade before it tests the enrolment
drop_course_grade_first(h, s, c) ==
    LET h0 == IF course_id(c) \in DOMAIN h.gr[s]
              THEN [h EXCEPT !.gr[s] = DictDel(@, course_id(c))]
              ELSE h
    IN  IF ~Contains(h0.ec[s], c)
        THEN [h |-> h0, ret |-> "False"]
        ELSE LET h1 == remove_student(h0, c, s)
                 h2 == [h1 EXCEPT !.ec[s] = ListRemove(@, c)]
             IN  [h |-> h2, ret |-> "True"]

\* drop_course that leaves the grade of the dropped course in _grades
drop_course_keeps_grade(h, s, c) ==
    IF ~Contains(h.ec[s], c)
    THEN [h |-> h, ret |-> "False"]
    ELSE LET h1 == remove_student(h, c, s)
             h2 == [h1 EXCEPT !.ec[s] = ListRemove(@, c)]
         IN  [h |-> h2, ret |-> "True"]

\* Student.drop_course(course) -> bool
drop_course(h, s, c) ==
    IF ~Contains(h.ec[s], c)
    THEN [h |-> h, ret |-> "False"]
    ELSE LET h1 == remove_student(h, c, s)
             h2 == [h1 EXCEPT !.ec[s] = ListRemove(@, c)]
             h3 == IF course_id(c) \in DOMAIN h2.gr[s]
                   THEN [h2 EXCEPT !.gr[s] = DictDel(@, course_id(c))]
                   ELSE h2
         IN  [h |-> h3, ret |-> "True"]

\* Student.add_grade(course_id, grade): raises ValueError outside 0..100
add_grade(h, s, cid, g) ==
    IF ~(0 <= g /\ g <= 100)
    THEN [h |-> h, ret |-> "ValueError"]
    ELSE [h |-> [h EXCEPT !.gr[s] = DictSet(@, cid, g)], ret |-> "None"]

\* -------------------------------------------------------------- actions
SetHeap(h) ==
    /\ enrolled_courses' = h.ec
    /\ enrolled_students' = h.es
    /\ grades' = h.gr

Student_enroll_course(s, c) ==
    LET r == enroll_course(Heap, s, c)
    IN  /\ SetHeap(r.h)
        /\ last' = Call("enroll_course", s, c, 0, r.ret)
        /\ UNCHANGED <<max_students, schoolVars, hospitalVars, staffVars>>

Student_drop_course(s, c) ==
    LET r == drop_course(Heap, s, c)
    IN  /\ SetHeap(r.h)
        /\ last' = Call("drop_course", s, c, 0, r.ret)
        /\ UNCHANGED <<max_students, schoolVars, hospitalVars, staffVars>>

Student_add_grade(s, cid, g) ==
    LET r == add_grade(Heap, s, cid, g)
    IN  /\ SetHeap(r.h)
        /\ last' = Call("add_grade", s, cid, g, r.ret)
        /\ UNCHANGED <<max_students, schoolVars, hospitalVars, staffVars>>

Course_add_student(c, s) ==
    LET r == add_student(Heap, c, s)
    IN  /\ SetHeap(r.h)
        /\ last' = Call("add_student", c, s, 0, r.ret)
        /\ UNCHANGED <<max_students, schoolVars, hospitalVars, staffVars>>

Course_remove_student(c, s) ==
    /\ SetHeap(remove_student(Heap, c, s))
    /\ last' = Call("remove_student", c, s, 0, "None")
    /\ UNCHANGED <<max_students, schoolVars, hospitalVars, staffVars>>

\* --------------------------------------------------------------- School
\* Person.person_id, Course.course_id, Department._dept_id of a registry
\* object: a constructor argument, so distinct objects may carry the same one
ident(o) == ((o - 1) % Cardinality(Ids)) + 1

\* dict.get(k): the value under k, None when k is absent
DictGet(d, k) == IF k \in DOMAIN d THEN d[k] ELSE None

\* add_student that stores the student without looking for the id
add_student_overwrites(reg, o) ==
    [reg |-> DictSet(reg, ident(o), o), ret |-> "True"]

\* School.add_student(student) -> bool
add_student_to_school(reg, o) ==
    IF ident(o) \in DOMAIN reg
    THEN [reg |-> reg, ret |-> "False"]
    ELSE [reg |-> DictSet(reg, ident(o), o), ret |-> "True"]

\* School.add_teacher(teacher) -> bool
add_teacher(reg, o) ==
    IF ident(o) \in DOMAIN reg
    THEN [reg |-> reg, ret |-> "False"]
    ELSE [reg |-> DictSet(reg, ident(o), o), ret |-> "True"]

\* School.add_course(course) -> bool
add_course(reg, o) ==
    IF ident(o) \in DOMAIN reg
    THEN [reg |-> reg, ret |-> "False"]
    ELSE [reg |-> DictSet(reg, ident(o), o), ret |-> "True"]

\* School.add_department(department) -> bool
add_department(reg, o) ==
    IF ident(o) \in DOMAIN reg
    THEN [reg |-> reg, ret |-> "False"]
    ELSE [reg |-> DictSet(reg, ident(o), o), ret |-> "True"]

\* School.get_student(student_id), get_teacher(teacher_id), get_course(course_id)
get_student(id) == DictGet(school_students, id)
get_teacher(id) == DictGet(school_teachers, id)
get_course(id) == DictGet(school_courses, id)

School_add_student(o) ==
    LET r == add_student_to_school(school_students, o)
    IN  /\ school_students' = r.reg
        /\ last' = Call("School.add_student", 0, o, 0, r.ret)
        /\ UNCHANGED <<school_teachers, school_courses, school_departments>>
        /\ UNCHANGED <<max_students, enrollVars, hospitalVars, staffVars>>

School_add_teacher(o) ==
    LET r == add_teacher(school_teachers, o)
    IN  /\ school_teachers' = r.reg
        /\ last' = Call("School.add_teacher", 0, o, 0, r.ret)
        /\ UNCHANGED <<school_students, school_courses, school_departments>>
        /\ UNCHANGED <<max_students, enrollVars, hospitalVars, staffVars>>

School_add_course(o) ==
    LET r == add_course(school_courses, o)
    IN  /\ school_courses' = r.reg
        /\ last' = Call("School.add_course", 0, o, 0, r.ret)
        /\ UNCHANGED <<school_students, school_teachers, school_departments>>
        /\ UNCHANGED <<max_students, enrollVars, hospitalVars, staffVars>>

School_add_department(o) ==
    LET r == add_department(school_departments, o)
    IN  /\ school_departments' = r.reg
        /\ last' = Call("School.add_department", 0, o, 0, r.ret)
        /\ UNCHANGED <<school_students, school_teachers, school_courses>>
        /\ UNCHANGED <<max_students, enrollVars, hospitalVars, staffVars>>

\* ----------------------------------------------------------------- Room
\* Room is used by Patient and defined nowhere in the repository: it holds
\* one patient, occupy takes a free room and vacate() frees it
occupy(occ, r, p) == IF occ[r] = None THEN [occ EXCEPT ![r] = p] ELSE occ

vacate(occ, r) == [occ EXCEPT ![r] = None]

RoomCall(m, r, p) == [method |-> m, room |-> r, patient |-> p]

\* -------------------------------------------------------------- Patient
PatientHeap ==
    [room |-> room, date |-> admission_date, adm |-> is_admitted,
     occ |-> room_occupant]

\* admit_to_hospital without the test of _is_admitted
admit_to_hospital_unguarded(h, p, r, now) ==
    [h |-> [h EXCEPT !.room[p] = r, !.date[p] = now, !.adm[p] = TRUE,
                     !.occ = occupy(h.occ, r, p)],
     calls |-> <<RoomCall("occupy", r, p)>>,
     ret |-> "None"]

\* Patient.admit_to_hospital(room)
admit_to_hospital(h, p, r, now) ==
    IF ~h.adm[p]
    THEN [h |-> [h EXCEPT !.room[p] = r, !.date[p] = now, !.adm[p] = TRUE,
                          !.occ = occupy(h.occ, r, p)],
          calls |-> <<RoomCall("occupy", r, p)>>,
          ret |-> "None"]
    ELSE [h |-> h, calls |-> <<>>, ret |-> "True"]

\* discharge that leaves _is_admitted set
discharge_stays_admitted(h, p) ==
    IF h.adm[p] /\ h.room[p] # None
    THEN [h |-> [h EXCEPT !.room[p] = None, !.date[p] = None,
                          !.occ = vacate(h.occ, h.room[p])],
          calls |-> <<RoomCall("vacate", h.room[p], None)>>,
          ret |-> "None"]
    ELSE [h |-> h, calls |-> <<>>,
          ret |-> IF h.adm[p] THEN "True" ELSE "False"]

\* Patient.discharge()
discharge(h, p) ==
    IF h.adm[p] /\ h.room[p] # None
    THEN [h |-> [h EXCEPT !.room[p] = None, !.date[p] = None, !.adm[p] = FALSE,
                          !.occ = vacate(h.occ, h.room[p])],
          calls |-> <<RoomCall("vacate", h.room[p], None)>>,
          ret |-> "None"]
    ELSE [h |-> h, calls |-> <<>>,
          ret |-> IF h.adm[p] THEN "True" ELSE "False"]

SetPatientHeap(h) ==
    /\ room' = h.room
    /\ admission_date' = h.date
    /\ is_admitted' = h.adm
    /\ room_occupant' = h.occ

Patient_admit_to_hospital(p, r) ==
    LET x == admit_to_hospital(PatientHeap, p, r, clock)
    IN  /\ SetPatientHeap(x.h)
        /\ calls' = x.calls
        /\ last' = Call("admit_to_hospital", p, r, 0, x.ret)
        /\ UNCHANGED <<doctorVars, clock, medical_history>>
        /\ UNCHANGED <<max_students, enrollVars, schoolVars, staffVars>>

Patient_discharge(p) ==
    LET x == discharge(PatientHeap, p)
    IN  /\ SetPatientHeap(x.h)
        /\ calls' = x.calls
        /\ last' = Call("discharge", p, 0, 0, x.ret)
        /\ UNCHANGED <<doctorVars, clock, medical_history>>
        /\ UNCHANGED <<max_students, enrollVars, schoolVars, staffVars>>

\* time passes between calls: datetime.now() reads a later instant
Tick ==
    /\ clock < MaxClock
    /\ clock' = clock + 1
    /\ calls' = <<>>
    /\ last' = Call("tick", 0, 0, 0, "None")
    /\ UNCHANGED <<patientVars, doctorVars, room_occupant, medical_history>>
    /\ UNCHANGED <<max_students, enrollVars, schoolVars, staffVars>>

\* --------------------------------------------------------------- Doctor
DoctorHeap == [doc |-> assigned_doctor, pts |-> doctor_patients]

\* Patient.assign_doctor(doctor): returns the doctor now assigned
assign_doctor(h, p, d) == [h |-> [h EXCEPT !.doc[p] = d], ret |-> d]

\* Doctor.add_patient(patient)
add_patient(h, d, p) ==
    IF ~Contains(h.pts[d], p)
    THEN [h EXCEPT !.pts[d] = Append(@, p)]
    ELSE h

\* Doctor.remove_patient(patient)
remove_patient(h, d, p) ==
    IF Contains(h.pts[d], p)
    THEN [h EXCEPT !.pts[d] = ListRemove(@, p)]
    ELSE h

SetDoctorHeap(h) ==
    /\ assigned_doctor' = h.doc
    /\ doctor_patients' = h.pts

Patient_assign_doctor(p, d) ==
    LET x == assign_doctor(DoctorHeap, p, d)
    IN  /\ SetDoctorHeap(x.h)
        /\ last' = Call("assign_doctor", p, d, 0, x.ret)
        /\ UNCHANGED <<patientVars, room_occupant, clock, calls, medical_history>>
        /\ UNCHANGED <<max_students, enrollVars, schoolVars, staffVars>>

Doctor_add_patient(d, p) ==
    /\ SetDoctorHeap(add_patient(DoctorHeap, d, p))
    /\ last' = Call("add_patient", d, p, 0, 0)
    /\ UNCHANGED <<patientVars, room_occupant, clock, calls, medical_history>>
    /\ UNCHANGED <<max_students, enrollVars, schoolVars, staffVars>>

Doctor_remove_patient(d, p) ==
    /\ SetDoctorHeap(remove_patient(DoctorHeap, d, p))
    /\ last' = Call("remove_patient", d, p, 0, 0)
    /\ UNCHANGED <<patientVars, room_occupant, clock, calls, medical_history>>
    /\ UNCHANGED <<max_students, enrollVars, schoolVars, staffVars>>

\* ----------------------------------------------------- validated fields
\* strings are lists of characters; the characters str.strip() removes
Whitespace == {" ", "\t", "\n"}

\* str.strip(): the string without its leading and trailing whitespace
strip(value) ==
    LET solid == {i \in 1..Len(value) : value[i] \notin Whitespace}
    IN  IF solid = {}
        THEN <<>>
        ELSE LET lo == CHOOSE i \in solid : \A j \in solid : i <= j
                 hi == CHOOSE i \in solid : \A j \in solid : j <= i
             IN  SubSeq(value, lo, hi)

name_setter_unstripped(f, x, value) ==
    IF value = <<>>
    THEN [f |-> f, ret |-> "ValueError"]
    ELSE [f |-> [f EXCEPT ![x] = value], ret |-> "None"]

\* Person.name = value
name_setter(f, x, value) ==
    IF strip(value) = <<>>
    THEN [f |-> f, ret |-> "ValueError"]
    ELSE [f |-> [f EXCEPT ![x] = value], ret |-> "None"]

\* Person.email = value
email_setter(f, x, value) ==
    IF ~Contains(value, "@")
    THEN [f |-> f, ret |-> "ValueError"]
    ELSE [f |-> [f EXCEPT ![x] = value], ret |-> "None"]

\* Student.grade_level = value
grade_level_setter(f, s, value) ==
    IF ~(1 <= value /\ value <= 12)
    THEN [f |-> f, ret |-> "ValueError"]
    ELSE [f |-> [f EXCEPT ![s] = value], ret |-> "None"]

\* Teacher.salary = value
salary_setter(f, x, value) ==
    IF value < 0
    THEN [f |-> f, ret |-> "ValueError"]
    ELSE [f |-> [f EXCEPT ![x] = value], ret |-> "None"]

Person_name_setter(x, value) ==
    LET r == name_setter(name, x, value)
    IN  /\ name' = r.f
        /\ last' = Call("name", x, 0, value, r.ret)
        /\ UNCHANGED <<email, grade_level, salary, teacherVars>>
        /\ UNCHANGED <<max_students, enrollVars, schoolVars, hospitalVars>>

Person_email_setter(x, value) ==
    LET r == email_setter(email, x, value)
    IN  /\ email' = r.f
        /\ last' = Call("email", x, 0, value, r.ret)
        /\ UNCHANGED <<name, grade_level, salary, teacherVars>>
        /\ UNCHANGED <<max_students, enrollVars, schoolVars, hospitalVars>>

Student_grade_level_setter(s, value) ==
    LET r == grade_level_setter(grade_level, s, value)
    IN  /\ grade_level' = r.f
        /\ last' = Call("grade_level", s, 0, value, r.ret)
        /\ UNCHANGED <<name, email, salary, teacherVars>>
        /\ UNCHANGED <<max_students, enrollVars, schoolVars, hospitalVars>>

Teacher_salary_setter(x, value) ==
    LET r == salary_setter(salary, x, value)
    IN  /\ salary' = r.f
        /\ last' = Call("salary", x, 0, value, r.ret)
        /\ UNCHANGED <<name, email, grade_level, teacherVars>>
        /\ UNCHANGED <<max_students, enrollVars, schoolVars, hospitalVars>>

\* -------------------------------------------------------------- Teacher
TeacherHeap == [ct |-> courses_taught, tch |-> teacher]

\* Course.teacher = value
teacher_setter(h, c, value) == [h EXCEPT !.tch[c] = value]

\* Teacher.assign_course(course)
assign_course(h, x, c) ==
    IF ~Contains(h.ct[x], c)
    THEN teacher_setter([h EXCEPT !.ct[x] = Append(@, c)], c, x)
    ELSE h

\* Teacher.remove_course(course)
remove_course(h, x, c) ==
    IF Contains(h.ct[x], c)
    THEN [h EXCEPT !.ct[x] = ListRemove(@, c)]
    ELSE h

SetTeacherHeap(h) ==
    /\ courses_taught' = h.ct
    /\ teacher' = h.tch

Teacher_assign_course(x, c) ==
    /\ SetTeacherHeap(assign_course(TeacherHeap, x, c))
    /\ last' = Call("assign_course", x, c, 0, "None")
    /\ UNCHANGED <<personVars, max_students, enrollVars, schoolVars,
                   hospitalVars>>

Teacher_remove_course(x, c) ==
    /\ SetTeacherHeap(remove_course(TeacherHeap, x, c))
    /\ last' = Call("remove_course", x, c, 0, "None")
    /\ UNCHANGED <<personVars, max_students, enrollVars, schoolVars,
                   hospitalVars>>

\* ------------------------------------------------------ medical history
\* the entry f"{datetime.now()...}: {history}": the reading of the clock and
\* the string passed; diagnosis marks a string built as f"Diagnosis: {...}"
Entry(now, diagnosis, history) ==
    [at |-> now, diagnosis |-> diagnosis, text |-> history]

add_medical_history_replaces(mh, p, diagnosis, history, now) ==
    [mh EXCEPT ![p] = <<Entry(now, diagnosis, history)>>]

\* Patient.add_medical_history(history): returns the list
add_medical_history(mh, p, diagnosis, history, now) ==
    [mh EXCEPT ![p] = Append(@, Entry(now, diagnosis, history))]

\* Doctor.write_diagnosis(patient, diagnosis)
write_diagnosis(mh, d, p, diagnosis, now) ==
    add_medical_history(mh, p, TRUE, diagnosis, now)

Patient_add_medical_history(p, history) ==
    /\ Len(medical_history[p]) < MaxHistory
    /\ medical_history' =
           add_medical_history(medical_history, p, FALSE, history, clock)
    /\ last' = Call("add_medical_history", p, 0, history, "list")
    /\ UNCHANGED <<patientVars, doctorVars, room_occupant, clock, calls>>
    /\ UNCHANGED <<max_students, enrollVars, schoolVars, staffVars>>

Doctor_write_diagnosis(d, p, diagnosis) ==
    /\ Len(medical_history[p]) < MaxHistory
    /\ medical_history' =
           write_diagnosis(medical_history, d, p, diagnosis, clock)
    /\ last' = Call("write_diagnosis", d, p, diagnosis, "None")
    /\ UNCHANGED <<patientVars, doctorVars, room_occupant, clock, calls>>
    /\ UNCHANGED <<max_students, enrollVars, schoolVars, staffVars>>

\* ------------------------------------------------------- specifications
\* every object as its constructor leaves it
InitEnroll ==
    /\ enrolled_courses = [s \in Students |-> <<>>]
    /\ enrolled_students = [c \in Courses |-> <<>>]
    /\ grades = [s \in Students |-> <<>>]

InitSchool ==
    /\ school_students = <<>>
    /\ school_teachers = <<>>
    /\ school_courses = <<>>
    /\ school_departments = <<>>

InitHospital ==
    /\ room = [p \in Patients |-> None]
    /\ admission_date = [p \in Patients |-> None]
    /\ is_admitted = [p \in Patients |-> FALSE]
    /\ assigned_doctor = [p \in Patients |-> None]
    /\ doctor_patients = [d \in Doctors |-> <<>>]
    /\ room_occupant = [r \in Rooms |-> None]
    /\ clock = 1
    /\ calls = <<>>
    /\ medical_history = [p \in Patients |-> <<>>]

\* the name and email a Person is built with, as lists of characters
NameGiven == <<"A", "l">>
EmailGiven == <<"a", "@", "x">>
\* the grade_level main builds its first student with
GradeLevelGiven == 10

InitStaff ==
    /\ name = [x \in Persons |-> NameGiven]
    /\ email = [x \in Persons |-> EmailGiven]
    /\ grade_level = [s \in Students |-> GradeLevelGiven]
    /\ salary = [x \in Teachers |-> 0]
    /\ courses_taught = [x \in Teachers |-> <<>>]
    /\ teacher = [c \in Courses |-> None]

\* Course.__init__'s default for max_students
DefaultMaxStudents == 30

\* courses built with any max_students
Init ==
    /\ max_students \in [Courses -> CapValues]
    /\ InitEnroll /\ InitSchool /\ InitHospital /\ InitStaff
    /\ last = Call("init", 0, 0, 0, "None")

\* courses built with the default max_students
InitDefault ==
    /\ max_students = [c \in Courses |-> DefaultMaxStudents]
    /\ InitEnroll /\ InitSchool /\ InitHospital /\ InitStaff
    /\ last = Call("init", 0, 0, 0, "None")

\* a grade in range (main stores 88.0)
GradeOk == 88

\* Student.enroll_course and Student.drop_course, any student, any course
NextEnroll ==
    \/ \E s \in Students, c \in Courses : Student_enroll_course(s, c)
    \/ \E s \in Students, c \in Courses : Student_drop_course(s, c)

SpecEnroll == Init /\ [][NextEnroll]_vars

\* the Student-side calls with grades
NextGrades ==
    \/ \E s \in Students, c \in Courses : Student_enroll_course(s, c)
    \/ \E s \in Students, c \in Courses : Student_drop_course(s, c)
    \/ \E s \in GradedStudents, c \in Courses :
           Student_add_grade(s, course_id(c), GradeOk)

SpecGrades == Init /\ [][NextGrades]_vars

\* the Student-side and the Course-side calls on the association
Next ==
    \/ \E s \in Students, c \in Courses : Student_enroll_course(s, c)
    \/ \E s \in Students, c \in Courses : Student_drop_course(s, c)
    \/ \E s \in Students, c \in Courses : Course_add_student(c, s)
    \/ \E s \in Students, c \in Courses : Course_remove_student(c, s)

Spec == Init /\ [][Next]_vars

\* the School registry
NextSchool ==
    \/ \E o \in Entities : School_add_student(o)
    \/ \E o \in Entities : School_add_teacher(o)
    \/ \E o \in Entities : School_add_course(o)
    \/ \E o \in Entities : School_add_department(o)

SpecSchool == InitDefault /\ [][NextSchool]_vars

\* a patient's room
NextAdmit ==
    \/ \E p \in Patients, r \in Rooms : Patient_admit_to_hospital(p, r)
    \/ \E p \in Patients : Patient_discharge(p)
    \/ Tick

SpecAdmit == InitDefault /\ [][NextAdmit]_vars

\* a patient's doctor
NextDoctor ==
    \/ \E p \in Patients, d \in Doctors : Patient_assign_doctor(p, d)
    \/ \E p \in Patients, d \in Doctors : Doctor_add_patient(d, p)
    \/ \E p \in Patients, d \in Doctors : Doctor_remove_patient(d, p)

SpecDoctor == InitDefault /\ [][NextDoctor]_vars

\* another grade in range (main stores 95.0)
GradeTop == 95

\* the calls that write grades and medical history
NextRecords ==
    \/ \E s \in RecordStudents, c \in Courses : Student_enroll_course(s, c)
    \/ \E s \in RecordStudents, c \in Courses : Student_drop_course(s, c)
    \/ \E s \in RecordStudents, c \in Courses, g \in {GradeOk, GradeTop} :
           Student_add_grade(s, course_id(c), g)
    \/ \E p \in HistoryPatients, h \in Histories :
           Patient_add_medical_history(p, h)
    \/ \E d \in Doctors, p \in HistoryPatients, h \in Histories :
           Doctor_write_diagnosis(d, p, h)

SpecRecords == InitDefault /\ [][NextRecords]_vars

\* the values assigned: blank and solid names, emails with and without "@",
\* and numbers on both sides of each limit
NameValues == {<<>>, <<" ">>, <<" ", "\t">>, <<"B">>, <<" ", "B", " ">>}
EmailValues == {<<>>, <<"b">>, <<"@">>, <<"b", "@", "x">>}
GradeLevelValues == {0, 1, 12, 13}
SalaryValues == {-1, 0, 1}
GradeValues == {-1, 0, 100, 101}

\* the validating setters and add_grade
NextValidation ==
    \/ \E x \in Persons, v \in NameValues : Person_name_setter(x, v)
    \/ \E x \in Persons, v \in EmailValues : Person_email_setter(x, v)
    \/ \E s \in RecordStudents, v \in GradeLevelValues :
           Student_grade_level_setter(s, v)
    \/ \E x \in Teachers, v \in SalaryValues : Teacher_salary_setter(x, v)
    \/ \E s \in RecordStudents, c \in Courses, g \in GradeValues :
           Student_add_grade(s, course_id(c), g)

SpecValidation == InitDefault /\ [][NextValidation]_vars

\* a teacher's courses
NextTeacher ==
    \/ \E x \in Teachers, c \in Courses : Teacher_assign_course(x, c)
    \/ \E x \in Teachers, c \in Courses : Teacher_remove_course(x, c)

SpecTeacher == InitDefault /\ [][NextTeacher]_vars

\* --------------------------------------------------------------- claims
\* C1: in every state reached by Student.enroll_course, Student.drop_course,
\* Course.add_student and Course.remove_student calls, every Course holds at
\* most max_students enrolled students, whatever max_students was passed.
C1_CapacityRespected ==
    \A c \in Courses : Len(enrolled_students[c]) <= max_students[c]

\* C2: under Student.enroll_course and Student.drop_course calls, a student is
\* in a course's enrolled-student list exactly when the course is in the
\* student's enrolled-course list.
C2_Symmetric ==
    \A s \in Students, c \in Courses :
        Contains(enrolled_students[c], s) <=> Contains(enrolled_courses[s], c)

\* a student has dropped one course and is still enrolled in the other, full one
C2_Witness ==
    \E s \in Students, c1 \in Courses, c2 \in Courses :
        /\ c1 # c2
        /\ last = Call("drop_course", s, c1, 0, "True")
        /\ Contains(enrolled_courses[s], c2)
        /\ Len(enrolled_students[c2]) = 2
        /\ Len(enrolled_students[c1]) = 1

\* C3: Student.enroll_course(course) returns False and leaves the student's
\* courses, the course's students and the grades as they were whenever the
\* student is already enrolled in the course or the course already holds
\* max_students students (so a third student is turned away from a course of 2).
C3_EnrollRejected ==
    [][\A s \in Students, c \in Courses :
          ( /\ last'.op = "enroll_course" /\ last'.self = s /\ last'.arg = c
            /\ \/ Contains(enrolled_courses[s], c)
               \/ Len(enrolled_students[c]) >= max_students[c] )
          => ( /\ last'.ret = "False"
               /\ enrolled_courses' = enrolled_courses
               /\ enrolled_students' = enrolled_students
               /\ grades' = grades )]_vars

\* the third student was just turned away from a course of 2 that keeps its 2
C3_Witness ==
    \E s \in Students, c \in Courses :
        /\ last = Call("enroll_course", s, c, 0, "False")
        /\ max_students[c] = 2
        /\ Len(enrolled_students[c]) = 2
        /\ ~Contains(enrolled_students[c], s)
        /\ ~Contains(enrolled_courses[s], c)
        /\ \E g \in GradedStudents : DOMAIN grades[g] # {}

\* C4: Student.drop_course(course) on a course the student is not enrolled in
\* returns False and changes nothing: not the student's courses, not the
\* grades (a grade stored under that course id stays), not the course's students.
C4_DropRejected ==
    [][\A s \in Students, c \in Courses :
          ( /\ last'.op = "drop_course" /\ last'.self = s /\ last'.arg = c
            /\ ~Contains(enrolled_courses[s], c) )
          => ( /\ last'.ret = "False"
               /\ enrolled_courses' = enrolled_courses
               /\ enrolled_students' = enrolled_students
               /\ grades' = grades )]_vars

\* a drop was just refused while a grade is stored under the course's id
C4_Witness ==
    \E s \in Students, c \in Courses :
        /\ last = Call("drop_course", s, c, 0, "False")
        /\ course_id(c) \in DOMAIN grades[s]
        /\ grades[s][course_id(c)] = GradeOk
        /\ Len(enrolled_students[c]) > 0

\* C5: from any reachable state, a successful Student.enroll_course(course)
\* followed at once by Student.drop_course(course) leaves the student's course
\* list and the course's student list as they were, element for element.
C5_RoundTrip ==
    \A s \in Students, c \in Courses :
        LET r1 == enroll_course(Heap, s, c)
            r2 == drop_course(r1.h, s, c)
        IN  r1.ret = "True" =>
                /\ r2.ret = "True"
                /\ r2.h.ec = enrolled_courses
                /\ r2.h.es = enrolled_students

\* the pair was just dropped, can be enrolled again, and both lists hold others
C5_Witness ==
    \E s \in Students, c \in Courses :
        /\ last = Call("drop_course", s, c, 0, "True")
        /\ enroll_course(Heap, s, c).ret = "True"
        /\ Len(enrolled_courses[s]) = 1
        /\ Len(enrolled_students[c]) = 1

\* C6: enrolling the same pair twice leaves one edge: the second
\* Student.enroll_course returns False and changes nothing, and no course is
\* twice in a student's list nor a student twice in a course's list.
C6_Idempotent ==
    \A s \in Students, c \in Courses :
        LET r1 == enroll_course(Heap, s, c)
            r2 == enroll_course(r1.h, s, c)
        IN  /\ Count(enrolled_courses[s], c) <= 1
            /\ Count(enrolled_students[c], s) <= 1
            /\ r2.ret = "False"
            /\ r2.h = r1.h
            /\ (r1.ret = "True" \/ Contains(enrolled_courses[s], c)) =>
                   /\ Count(r2.h.ec[s], c) = 1
                   /\ Count(r2.h.es[c], s) = 1

\* a second enrolment of an enrolled pair was just refused, the course not full
C6_Witness ==
    \E s \in Students, c \in Courses :
        /\ last = Call("enroll_course", s, c, 0, "False")
        /\ Count(enrolled_courses[s], c) = 1
        /\ Count(enrolled_students[c], s) = 1
        /\ Len(enrolled_students[c]) < max_students[c]

\* what a duplicate insertion into one registry must do: return False and
\* leave the dict, its lookups and its size as they were
Rejected(op, reg, regNext) ==
    \A o \in Entities :
        (last'.op = op /\ last'.arg = o /\ ident(o) \in DOMAIN reg) =>
            /\ last'.ret = "False"
            /\ regNext = reg
            /\ DictGet(regNext, ident(o)) = DictGet(reg, ident(o))
            /\ Cardinality(DOMAIN regNext) = Cardinality(DOMAIN reg)

\* an identifier keeps the entity first stored under it, and one never
\* inserted (no successful add of an entity carrying it) still looks up as None
FirstKept(op, reg, regNext) ==
    \A id \in Ids :
        /\ DictGet(reg, id) # None => DictGet(regNext, id) = DictGet(reg, id)
        /\ ( /\ DictGet(reg, id) = None
             /\ ~(last'.op = op /\ ident(last'.arg) = id /\ last'.ret = "True") )
           => DictGet(regNext, id) = None

\* C7: School.add_student, add_teacher, add_course and add_department return
\* False and leave the registry unchanged when the identifier is already
\* registered: it still maps to the first entity, the count does not grow, and
\* an identifier never inserted looks up as None.
C7_DuplicateRejected ==
    /\ \A id \in Ids :
           get_student(id) = None /\ get_teacher(id) = None /\ get_course(id) = None
    /\ [][ /\ Rejected("School.add_student", school_students, school_students')
           /\ Rejected("School.add_teacher", school_teachers, school_teachers')
           /\ Rejected("School.add_course", school_courses, school_courses')
           /\ Rejected("School.add_department", school_departments,
                       school_departments')
           /\ FirstKept("School.add_student", school_students, school_students')
           /\ FirstKept("School.add_teacher", school_teachers, school_teachers')
           /\ FirstKept("School.add_course", school_courses, school_courses')
           /\ FirstKept("School.add_department", school_departments,
                        school_departments') ]_vars

\* a second student with a registered id was just refused; another id is unused
C7_Witness ==
    \E o \in Entities :
        /\ last = Call("School.add_student", 0, o, 0, "False")
        /\ get_student(ident(o)) # None
        /\ get_student(ident(o)) # o
        /\ Cardinality(DOMAIN school_students) = 1
        /\ \E id \in Ids : get_student(id) = None

C9_ExclusiveDoctor ==
    [][\A p \in Patients, d \in Doctors :
          (last'.op = "assign_doctor" /\ last'.self = p /\ last'.arg = d) =>
              IF assigned_doctor[p] # None
              THEN /\ assigned_doctor' = assigned_doctor
                   /\ doctor_patients' = doctor_patients
              ELSE /\ assigned_doctor'[p] = d
                   /\ Contains(doctor_patients'[d], p)]_vars

Without(lst, x) == LET Keep(y) == y # x IN SelectSeq(lst, Keep)

\* C11: a Student.drop_course(course) of an enrolled student returns True, and
\* afterwards the course is not in the student's list, the student is not in
\* the course's list and the grades hold nothing under the course's id, while
\* the student's other enrolments and grades and every other student's
\* enrolments are as before.
C11_DropSucceeds ==
    [][\A s \in Students, c \in Courses :
          ( /\ last'.op = "drop_course" /\ last'.self = s /\ last'.arg = c
            /\ Contains(enrolled_courses[s], c) )
          => ( /\ last'.ret = "True"
               /\ ~Contains(enrolled_courses'[s], c)
               /\ ~Contains(enrolled_students'[c], s)
               /\ course_id(c) \notin DOMAIN grades'[s]
               /\ enrolled_courses'[s] = Without(enrolled_courses[s], c)
               /\ DOMAIN grades'[s] = (DOMAIN grades[s]) \ {course_id(c)}
               /\ \A k \in DOMAIN grades'[s] : grades'[s][k] = grades[s][k]
               /\ \A s2 \in Students \ {s} :
                      enrolled_courses'[s2] = enrolled_courses[s2]
               /\ enrolled_students'[c] = Without(enrolled_students[c], s)
               /\ \A c2 \in Courses \ {c} :
                      enrolled_students'[c2] = enrolled_students[c2] )]_vars

\* a student just dropped one course and keeps the other with its grade, and
\* another student stays in the dropped course
C11_Witness ==
    \E s \in Students, c \in Courses, c2 \in Courses, s2 \in Students :
        /\ c # c2 /\ s # s2
        /\ last = Call("drop_course", s, c, 0, "True")
        /\ enrolled_courses[s] = <<c2>>
        /\ DOMAIN grades[s] = {course_id(c2)}
        /\ enrolled_students[c] = <<s2>>
        /\ Contains(enrolled_students[c2], s)

\* lst is an initial part of longer
IsPrefix(lst, longer) ==
    /\ Len(lst) <= Len(longer)
    /\ \A i \in 1..Len(lst) : longer[i] = lst[i]

\* C12 as stated: over any sequence of add_grade, enroll_course, drop_course,
\* add_medical_history and write_diagnosis calls, a grade once recorded for a
\* student and a medical-history entry once recorded for a patient is never
\* removed or replaced by a later call.
C12_AppendOnly ==
    [][/\ \A p \in Patients :
             IsPrefix(medical_history[p], medical_history'[p])
       /\ \A s \in Students : \A k \in DOMAIN grades[s] :
             /\ k \in DOMAIN grades'[s]
             /\ grades'[s][k] = grades[s][k]]_vars

\* C12 amended: a medical-history entry once recorded for a patient is never
\* removed or replaced by a later call; a grade once recorded for a student
\* stays recorded with its value across every call except a successful
\* drop_course by that student of the course with that id, which removes it,
\* and an accepted add_grade by that student for that course id, which
\* replaces it with the grade passed.
C12_RecordsKept ==
    [][/\ \A p \in Patients :
             IsPrefix(medical_history[p], medical_history'[p])
       /\ \A s \in Students : \A k \in DOMAIN grades[s] :
             \/ /\ k \in DOMAIN grades'[s]
                /\ grades'[s][k] = grades[s][k]
             \/ /\ last'.op = "drop_course" /\ last'.self = s
                /\ course_id(last'.arg) = k /\ last'.ret = "True"
                /\ k \notin DOMAIN grades'[s]
             \/ /\ last'.op = "add_grade" /\ last'.self = s
                /\ last'.arg = k /\ last'.ret = "None"
                /\ k \in DOMAIN grades'[s]
                /\ grades'[s][k] = last'.val]_vars

\* a drop has just removed one of a student's two grades, the other was
\* replaced before, and a patient's history holds an entry of each kind
C12_Witness ==
    \E p \in Patients, s \in Students, c \in Courses, c2 \in Courses :
        /\ last = Call("drop_course", s, c, 0, "True")
        /\ DOMAIN grades[s] = {course_id(c2)}
        /\ c2 # c
        /\ grades[s][course_id(c2)] = GradeTop
        /\ Len(medical_history[p]) = 2
        /\ ~medical_history[p][1].diagnosis
        /\ medical_history[p][2].diagnosis

\* a string with no character other than whitespace (the empty one included)
AllBlank(value) == \A i \in 1..Len(value) : value[i] \in Whitespace

\* the validated fields and the grades
Validated == <<name, email, grade_level, salary, grades>>

\* C13: malformed input is rejected at assignment and the stored value is
\* unchanged: add_grade with a grade outside 0..100, the salary setter with a
\* negative value, the grade_level setter outside 1..12, the name setter with
\* an empty or all-blank string and the email setter with a string lacking
\* "@" each raise and leave every field and the grades as before; every
\* in-range value is stored in its field and nothing else changes.
C13_Validated ==
    [][/\ \A s \in Students :
             (last'.op = "add_grade" /\ last'.self = s) =>
                 IF 0 <= last'.val /\ last'.val <= 100
                 THEN /\ last'.ret = "None"
                      /\ grades' = [grades EXCEPT ![s] =
                                        DictSet(@, last'.arg, last'.val)]
                      /\ UNCHANGED <<name, email, grade_level, salary>>
                 ELSE last'.ret = "ValueError" /\ UNCHANGED Validated
       /\ \A x \in Teachers :
             (last'.op = "salary" /\ last'.self = x) =>
                 IF last'.val >= 0
                 THEN /\ last'.ret = "None"
                      /\ salary' = [salary EXCEPT ![x] = last'.val]
                      /\ UNCHANGED <<name, email, grade_level, grades>>
                 ELSE last'.ret = "ValueError" /\ UNCHANGED Validated
       /\ \A s \in Students :
             (last'.op = "grade_level" /\ last'.self = s) =>
                 IF last'.val \in 1..12
                 THEN /\ last'.ret = "None"
                      /\ grade_level' = [grade_level EXCEPT ![s] = last'.val]
                      /\ UNCHANGED <<name, email, salary, grades>>
                 ELSE last'.ret = "ValueError" /\ UNCHANGED Validated
       /\ \A x \in Persons :
             (last'.op = "name" /\ last'.self = x) =>
                 IF ~AllBlank(last'.val)
                 THEN /\ last'.ret = "None"
                      /\ name' = [name EXCEPT ![x] = last'.val]
                      /\ UNCHANGED <<email, grade_level, salary, grades>>
                 ELSE last'.ret = "ValueError" /\ UNCHANGED Validated
       /\ \A x \in Persons :
             (last'.op = "email" /\ last'.self = x) =>
                 IF \E i \in 1..Len(last'.val) : last'.val[i] = "@"
                 THEN /\ last'.ret = "None"
                      /\ email' = [email EXCEPT ![x] = last'.val]
                      /\ UNCHANGED <<name, grade_level, salary, grades>>
                 ELSE last'.ret = "ValueError" /\ UNCHANGED Validated]_vars

\* an all-blank name has just been rejected while the fields hold values
\* stored by earlier assignments at the limits of their ranges
C13_Witness ==
    \E x \in Persons, s \in Students, y \in Teachers, c \in Courses :
        /\ last = Call("name", x, 0, <<" ", "\t">>, "ValueError")
        /\ name[x] = <<" ", "B", " ">>
        /\ email[x] = <<"@">>
        /\ grade_level[s] = 12
        /\ salary[y] = 1
        /\ course_id(c) \in DOMAIN grades[s]
        /\ grades[s][course_id(c)] = 100

\* C14: a successful direct Course.add_student(student) also puts the course
\* in the student's enrolled-course list, and a direct
\* Course.remove_student(student) of a listed student also takes the course
\* out of that list, so the two sides agree for that pair after the call.
C14_DirectLinked ==
    [][\A c \in Courses, s \in Students :
          /\ ( /\ last'.op = "add_student" /\ last'.self = c
               /\ last'.arg = s /\ last'.ret = "True" )
             => ( /\ Contains(enrolled_students'[c], s)
                  /\ Contains(enrolled_courses'[s], c) )
          /\ ( /\ last'.op = "remove_student" /\ last'.self = c
               /\ last'.arg = s /\ Contains(enrolled_students[c], s) )
             => ( /\ ~Contains(enrolled_students'[c], s)
                  /\ ~Contains(enrolled_courses'[s], c) )]_vars

\* C15: after any sequence of Teacher.assign_course and Teacher.remove_course
\* calls, a course's teacher is T exactly when the course is in T's
\* courses-taught list; so no course is listed by two teachers and no course
\* keeps a teacher who has removed it.
C15_TeacherLinked ==
    \A x \in Teachers, c \in Courses :
        (teacher[c] = x) <=> Contains(courses_taught[x], c)

\* C16: after any sequence of enroll_course, drop_course and add_grade calls,
\* every course id with an entry in a student's grades is the id of a course
\* the student is enrolled in.
C16_GradeNeedsEnrollment ==
    \A s \in Students : \A k \in DOMAIN grades[s] :
        \E c \in Courses :
            course_id(c) = k /\ Contains(enrolled_courses[s], c)

====
